---- MODULE Spec2Model ----
(***************************************************************************)
(* AiCopilotDP: the controller that launches registered tool bundles as    *)
(* child processes (QProcess), tracks them in active_processes, hides      *)
(* itself while a tool runs and shows itself again when the tool ends; and  *)
(* the file based status channel the tools' engines write and their GUIs   *)
(* poll.                                                                    *)
(*                                                                          *)
(* The controller runs on one Qt event loop.  A handler that opens a modal  *)
(* dialog (QMessageBox.critical / question) blocks in a nested event loop:  *)
(* process signals of other children are delivered while it is open.  The   *)
(* open dialogs are the variable stack; the handler's remaining code runs   *)
(* when its dialog is dismissed.                                            *)
(*                                                                          *)
(* Five specifications: Spec, the running controller; StatusSpec, the       *)
(* status channel of one bundle; RegistrySpec, the controller's start-up    *)
(* from studio_config.json and its tool list; EngineSpec, one run of a      *)
(* bundle's engine.py in each of its command-line modes; SupervisionSpec,   *)
(* the controller next to an engine that writes its status file.            *)
(***************************************************************************)
EXTENDS Naturals, Integers, Sequences, FiniteSets, TLC

\* ------------------------------------------------------------------ bounds
\* Number of QProcess objects launch_tool may create in one behaviour.
MaxProcs == 2

\* Last reading of the wall clock.
MaxClock == 2

\* Largest number of entries in a studio_config.json document read at startup.
MaxTools == 2

\* Largest number of convertible files convert_folder finds.
MaxFiles == 3

\* ------------------------------------------------------------ the registry
\* studio_config.json documents the controller may have loaded.  Display
\* names collide on purpose; "b" is disabled in the first document.
Registries ==
    { [tools |-> << [id |-> "a", display_name |-> "Tool", enabled |-> TRUE],
                    [id |-> "b", display_name |-> "Tool", enabled |-> FALSE] >>],
      [tools |-> << [id |-> "b", display_name |-> "a", enabled |-> TRUE],
                    [id |-> "a", display_name |-> "Other", enabled |-> TRUE] >>] }

\* Ids that occur in some registry, and the ids launch_tool is called with
\* ("x" is in no registry).
ToolIds == {"a", "b"}
LaunchIds == ToolIds \cup {"x"}

NoTool == [id |-> "", display_name |-> "", enabled |-> FALSE]

\* tool['id'] on an entry without that key raises KeyError; no handler of the
\* controller catches it.
KeyError == [id |-> "", display_name |-> "KeyError", enabled |-> FALSE]

\* get_tool_by_id: the first entry of config['tools'] whose id matches, or None.
RECURSIVE FirstWithId(_, _, _)
FirstWithId(tools, tool_id, k) ==
    IF k > Len(tools) THEN NoTool
    ELSE IF "id" \notin DOMAIN tools[k] THEN KeyError
    ELSE IF tools[k].id = tool_id THEN tools[k]
    ELSE FirstWithId(tools, tool_id, k + 1)

\* Variant: the loop variable is returned after the loop, so an unknown id
\* yields the last entry instead of None.
get_tool_by_id_last(cfg, tool_id) ==
    LET t == FirstWithId(cfg.tools, tool_id, 1)
    IN  IF t = NoTool /\ Len(cfg.tools) > 0 THEN cfg.tools[Len(cfg.tools)] ELSE t

\* Variant: an entry is also found by its display name.
get_tool_by_id_or_name(cfg, tool_id) ==
    LET named == { k \in 1..Len(cfg.tools) :
                     cfg.tools[k].display_name = tool_id }
    IN  IF named # {} THEN cfg.tools[CHOOSE k \in named : TRUE]
        ELSE FirstWithId(cfg.tools, tool_id, 1)

get_tool_by_id(cfg, tool_id) == FirstWithId(cfg.tools, tool_id, 1)

\* Entries a studio_config.json document may hold.  A key the JSON object
\* lacks is a field the record lacks.  The bundle's path and entry point are
\* not fields here: the environment is keyed by the entry's id (venv_exists).
Entries ==
    { [id |-> "a", display_name |-> "Tool", enabled |-> TRUE],
      [id |-> "b", display_name |-> "Tool", enabled |-> FALSE],
      [id |-> "a", display_name |-> "Other"],
      [id |-> "b", display_name |-> "a", enabled |-> TRUE],
      [id |-> "a", display_name |-> "Off", enabled |-> FALSE],
      [display_name |-> "NoId", enabled |-> FALSE],
      [id |-> "a", enabled |-> TRUE] }

\* The documents: every sequence of at most MaxTools entries.
Documents ==
    { [tools |-> t] : t \in UNION { [1..n -> Entries] : n \in 0..MaxTools } }

\* studio_config.json on disk: present with a parsed content, or missing.
ConfigFile(exists, json) == [exists |-> exists, json |-> json]

\* Variant: a missing "enabled" key counts as disabled.
IsEnabledIfPresent(t) == "enabled" \in DOMAIN t /\ t.enabled

\* tool.get('enabled', True)
IsEnabled(t) == IF "enabled" \in DOMAIN t THEN t.enabled ELSE TRUE

\* The QListWidgetItem refresh_tool_list builds for an entry: the display
\* name as text, the id as UserRole data.
Item(t) == [text |-> t.display_name, data |-> t.id]

\* refresh_tool_list, lines 175-180: the loop over config['tools'].  An
\* enabled entry without display_name or id raises KeyError, which the
\* method's "except AttributeError" does not catch: the items added so far
\* stay in the list.
RECURSIVE AddItems(_, _, _)
AddItems(tools, k, items) ==
    IF k > Len(tools) THEN [raised |-> FALSE, items |-> items]
    ELSE IF ~IsEnabled(tools[k]) THEN AddItems(tools, k + 1, items)
    ELSE IF {"display_name", "id"} \subseteq DOMAIN tools[k]
         THEN AddItems(tools, k + 1, Append(items, Item(tools[k])))
    ELSE [raised |-> TRUE, items |-> items]

\* refresh_tool_list: the list is cleared and rebuilt from the configuration
\* (an empty configuration returns early with the list empty).
refresh_tool_list(cfg) == AddItems(cfg.tools, 1, << >>)

VARIABLES
    config,            \* self.config, the loaded registry
    venv_exists,       \* per tool: <path>/.venv/Scripts/python.exe exists
    active_processes,  \* self.active_processes: tool_id -> QProcess
    visible,           \* the controller window is shown
    activated,         \* the window was activated by the last show/hide
    procs,             \* every QProcess created, in creation order
    stack,             \* the event loop's call stack: pending signal
                       \* emissions and open modal dialogs, innermost last
    closed,            \* a close event was accepted
    last               \* the handler or step that produced this state

ctlVars == <<config, venv_exists, active_processes, visible, activated, procs,
             stack, closed>>

\* The status channel of one tool bundle: its engine processes write
\* logs/<tool>_status.json, its own window polls it.
VARIABLES
    tool,              \* the bundle whose channel is observed
    status_file,       \* content of the status file
    writers,           \* per engine process: position in update_status
    clock,             \* datetime.now()
    display,           \* what the window shows: message, progress
    timer_running      \* self.status_timer is active

chanVars == <<tool, status_file, writers, clock, display, timer_running>>

\* The registry file and the controller's start-up.
VARIABLES
    document,          \* studio_config.json as main() finds it
    phase,             \* "start", "running", "exited" (sys.exit) or "crashed"
    lst_tools          \* the items of the tool list widget, in order

regVars == <<document, phase, lst_tools>>

\* One run of the bundle's engine.py process.
VARIABLES
    engine,            \* the run: command-line mode, position, file counters
    written            \* the records the run has passed to json.dump, in order

engVars == <<engine, written>>

vars == <<ctlVars, chanVars, regVars, engVars, last>>

Pids == 1..MaxProcs

\* ------------------------------------------------- the handlers' assignments
\* del self.active_processes[tool_id], guarded by membership.
RemoveHandle(ap, tool_id) ==
    IF tool_id \in DOMAIN ap
    THEN [j \in DOMAIN ap \ {tool_id} |-> ap[j]]
    ELSE ap

\* Variant: setdefault, an existing handle of tool_id is kept.
SetHandleIfAbsent(ap, tool_id, p) ==
    [j \in DOMAIN ap \cup {tool_id} |-> IF j \in DOMAIN ap THEN ap[j] ELSE p]

\* self.active_processes[tool_id] = process
SetHandle(ap, tool_id, p) ==
    [j \in DOMAIN ap \cup {tool_id} |-> IF j = tool_id THEN p ELSE ap[j]]

\* Variant: the window's visibility is toggled instead of set.
ToggleWindow(v) == ~v

\* self.show(): the window's visibility after the call.
ShowWindow(v) == TRUE

\* self.hide()
HideWindow(v) == FALSE

\* Variant: show() moved inside the "if tool_id in self.active_processes".
ResumeWindowIfTracked(ap, tool_id, v) ==
    IF tool_id \in DOMAIN ap THEN ShowWindow(v) ELSE v

\* Variant: show() only when no handle of another tool remains in the table.
ResumeWindowWhenLast(ap, tool_id, v) ==
    IF DOMAIN ap \ {tool_id} = {} THEN ShowWindow(v) ELSE v

\* Variant: the window stays hidden while the bundle's status file reports a
\* run in progress.
ResumeWindowOnStatus(ap, tool_id, v) ==
    IF status_file.kind = "json" /\ status_file.rec.status = "running"
    THEN v
    ELSE ShowWindow(v)

\* on_tool_finished, lines 141-143: show() runs whether or not tool_id had a
\* handle in the table ap.
ResumeWindow(ap, tool_id, v) == ShowWindow(v)

\* Variant: the table is not consulted.
NeedsConfirmNever(ap) == FALSE

\* closeEvent, line 244: the question is asked when the table is non-empty.
NeedsConfirm(ap) == DOMAIN ap # {}

\* closeEvent, lines 251-255: only the reply No ignores the event.
CloseAccepted(reply) == reply # "No"

\* Variant: the interpreter's existence is not checked.
LaunchChecksNoVenv(cfg, venv, tool_id) ==
    IF get_tool_by_id(cfg, tool_id) = NoTool THEN "Tool Not Found" ELSE "spawn"

\* Variant: the check's success is remembered per tool: once a process was
\* created for tool_id the interpreter is not looked for again.
LaunchChecksCached(cfg, venv, tool_id) ==
    LET tool_info == get_tool_by_id(cfg, tool_id)
    IN  IF tool_info = NoTool THEN "Tool Not Found"
        ELSE IF \E p \in 1..Len(procs) : procs[p].tool = tool_id THEN "spawn"
        ELSE IF ~venv[tool_info.id] THEN "Environment Missing"
        ELSE "spawn"

\* Outcome of launch_tool's checks for tool_id in the current environment:
\* the title of the warning it shows, or "spawn" when it goes on to hide()
\* and start the process.
LaunchChecks(cfg, venv, tool_id) ==
    LET tool_info == get_tool_by_id(cfg, tool_id)
    IN  IF tool_info = NoTool THEN "Tool Not Found"
        ELSE IF tool_info = KeyError THEN "KeyError"
        ELSE IF ~venv[tool_info.id] THEN "Environment Missing"
        ELSE "spawn"

\* The window's visibility when launch_tool returns or reaches start():
\* hide() runs only after both checks have passed.
LaunchVisible(chk, v) == IF chk = "spawn" THEN HideWindow(v) ELSE v

\* Variant: both signals are connected to on_tool_error.
SlotsAllError(signal) == "on_tool_error"

\* The slot launch_tool connects to each QProcess signal.
Slots(signal) ==
    IF signal = "finished" THEN "on_tool_finished" ELSE "on_tool_error"

\* What the process layer reports for a child, and the signals QProcess emits
\* for it, in order: a child that failed to start emits errorOccurred only; a
\* child that terminates abnormally emits errorOccurred(Crashed) and then
\* finished(code, CrashExit); a child that exits emits finished only.
ProcessEvents == {"FailedToStart", "Crashed", "Exit0", "ExitNonZero"}

Signals(ev) ==
    CASE ev = "FailedToStart" -> << "errorOccurred" >>
      [] ev = "Crashed"       -> << "errorOccurred", "finished" >>
      [] OTHER                -> << "finished" >>

\* A QProcess created by launch_tool for tool_id (the id its two lambdas
\* capture); notified: on_tool_finished has run for it at least once.
NewProcess(tool_id, st) ==
    [tool |-> tool_id, state |-> st, notified |-> FALSE]

\* Variant: the lambdas read a variable shared by all launches, which holds
\* the id of the latest one.
CapturedIdLatest(ps, p) == ps[Len(ps)].tool

\* The tool_id the two lambdas of process p pass to their slot: each call of
\* launch_tool has its own tool_id, which its lambdas capture.
CapturedId(ps, p) == ps[p].tool

Frame(kind, p, ev, rest, reg) ==
    [kind |-> kind, pid |-> p, ev |-> ev, rest |-> rest, reg |-> reg]

Step(op, tool_id, p, outcome, ev) ==
    [op |-> op, id |-> tool_id, pid |-> p, outcome |-> outcome, ev |-> ev,
     entry |-> TRUE, item |-> 0]

Idle == phase = "running" /\ ~closed /\ stack = << >>

Top == stack[Len(stack)]
Pop == SubSeq(stack, 1, Len(stack) - 1)

\* The innermost frame is a dialog's nested event loop (or there is none):
\* process signals can be delivered.
LoopRuns ==
    /\ phase = "running"
    /\ ~closed
    /\ stack # << >> => Top.kind \in {"error", "question"}

InitCtl ==
    /\ config \in Registries
    /\ venv_exists \in [ToolIds -> BOOLEAN]
    /\ active_processes = << >>
    /\ visible = TRUE
    /\ activated = TRUE
    /\ procs = << >>
    /\ stack = << >>
    /\ closed = FALSE
    /\ document = ConfigFile(TRUE, config)
    /\ phase = "running"
    /\ lst_tools = refresh_tool_list(config).items
    /\ last = Step("init", "", 0, "", "")

\* ------------------------------------------------------------ launch_tool
\* launch_tool(tool_id), called while the event loop is idle; item: the list
\* item the call came from.  The method has
\* no guard of its own on visibility or on an existing handle, and it never
\* looks at the entry point file (entry: whether it exists at the call).
\* start() either returns with the process starting, or the process layer
\* reports FailedToStart inside start(): the errorOccurred slot then runs
\* before line 134 registers the handle (frame field reg).
launch_tool(tool_id, entry, item) ==
    /\ UNCHANGED <<chanVars, regVars, engVars>>
    /\ Idle
    /\ LET chk == LaunchChecks(config, venv_exists, tool_id)
           p == Len(procs) + 1
       IN  \/ /\ chk # "spawn"
              /\ visible' = LaunchVisible(chk, visible)
              /\ last' = [Step("launch_tool", tool_id, 0, chk, "")
                            EXCEPT !.entry = entry, !.item = item]
              /\ UNCHANGED <<config, venv_exists, active_processes, activated,
                             procs, stack, closed>>
           \/ /\ chk = "spawn"
              /\ Len(procs) < MaxProcs
              /\ visible' = LaunchVisible(chk, visible)
              /\ activated' = FALSE
              /\ \/ /\ procs' = Append(procs, NewProcess(tool_id, "Starting"))
                    /\ active_processes' = SetHandle(active_processes, tool_id, p)
                    /\ stack' = stack
                    /\ last' = [Step("launch_tool", tool_id, p, "started", "")
                                  EXCEPT !.entry = entry, !.item = item]
                 \/ /\ procs' = Append(procs, NewProcess(tool_id, "NotRunning"))
                    /\ active_processes' = active_processes
                    /\ stack' = Append(stack,
                                       Frame("emit", p, "FailedToStart",
                                             Signals("FailedToStart"), TRUE))
                    /\ last' = [Step("launch_tool", tool_id, p, "start", "FailedToStart")
                                  EXCEPT !.entry = entry, !.item = item]
              /\ UNCHANGED <<config, venv_exists, closed>>

\* launch_tool called directly (item 0: no list item is involved).
LaunchTool(tool_id, entry) == launch_tool(tool_id, entry, 0)

\* on_launch_clicked with item k of the list selected (k = 0: nothing is
\* selected): the id stored on the item goes to launch_tool.
OnLaunchClicked(k, entry) ==
    /\ visible
    /\ k \in 0..Len(lst_tools)
    /\ IF k = 0
       THEN /\ Idle
            /\ entry
            /\ last' = Step("on_launch_clicked", "", 0, "No Selection", "")
            /\ UNCHANGED <<ctlVars, chanVars, regVars, engVars>>
       ELSE launch_tool(lst_tools[k].data, entry, k)

\* ------------------------------------------------------ process signals
\* The process leaves Starting: no slot is connected to started().
ProcStarted(p) ==
    /\ UNCHANGED <<chanVars, regVars, engVars>>
    /\ LoopRuns
    /\ p \in 1..Len(procs)
    /\ procs[p].state = "Starting"
    /\ procs' = [procs EXCEPT ![p].state = "Running"]
    /\ last' = Step("process", procs[p].tool, p, "started", "")
    /\ UNCHANGED <<config, venv_exists, active_processes, visible, activated,
                   stack, closed>>

\* The process layer reports the end of child p while the event loop runs:
\* FailedToStart for a child still starting, an exit or a crash for a running
\* one.  The signals to emit are pushed on the call stack.
ProcessEnds(p, ev) ==
    /\ UNCHANGED <<chanVars, regVars, engVars>>
    /\ LoopRuns
    /\ p \in 1..Len(procs)
    /\ IF ev = "FailedToStart" THEN procs[p].state = "Starting"
                               ELSE procs[p].state = "Running"
    /\ procs' = [procs EXCEPT ![p].state = "NotRunning"]
    /\ stack' = Append(stack, Frame("emit", p, ev, Signals(ev), FALSE))
    /\ last' = Step("process", procs[p].tool, p, "ended", ev)
    /\ UNCHANGED <<config, venv_exists, active_processes, visible, activated,
                   closed>>

\* The next pending signal of the innermost emission is emitted and its slot
\* runs: on_tool_finished to its end, on_tool_error up to its modal dialog.
\* With no signal left, launch_tool resumes after start() and registers the
\* handle (line 134).
Emit ==
    /\ UNCHANGED <<chanVars, regVars, engVars>>
    /\ ~closed
    /\ stack # << >>
    /\ Top.kind = "emit"
    /\ LET f == Top
           p == f.pid
           tool_id == CapturedId(procs, p)
       IN  IF f.rest = << >>
           THEN /\ active_processes' = SetHandle(active_processes, tool_id, p)
                /\ stack' = Pop
                /\ last' = Step("launch_tool", tool_id, p, "error during start", f.ev)
                /\ UNCHANGED <<visible, activated, procs>>
           ELSE LET g == [f EXCEPT !.rest = Tail(@)]
                    below == IF g.rest = << >> /\ ~g.reg THEN Pop
                             ELSE Append(Pop, g)
                IN  IF Slots(Head(f.rest)) = "on_tool_finished"
                    THEN /\ active_processes' =
                                RemoveHandle(active_processes, tool_id)
                         /\ visible' = ResumeWindow(active_processes, tool_id,
                                                    visible)
                         /\ activated' = visible'
                         /\ procs' = [procs EXCEPT ![p].notified = TRUE]
                         /\ stack' = below
                         /\ last' = Step("on_tool_finished", tool_id, p,
                                         "handled", f.ev)
                    ELSE /\ stack' = Append(below,
                                            Frame("error", p, f.ev, << >>, FALSE))
                         /\ last' = Step("on_tool_error", tool_id, p,
                                         "dialog", f.ev)
                         /\ UNCHANGED <<active_processes, visible, activated,
                                        procs>>
    /\ UNCHANGED <<config, venv_exists, closed>>

\* The user dismisses the innermost error dialog: on_tool_error goes on to
\* on_tool_finished(tool_id) and returns.
DismissError ==
    /\ UNCHANGED <<chanVars, regVars, engVars>>
    /\ ~closed
    /\ stack # << >>
    /\ Top.kind = "error"
    /\ active_processes' = RemoveHandle(active_processes,
                                        CapturedId(procs, Top.pid))
    /\ visible' = ResumeWindow(active_processes, CapturedId(procs, Top.pid),
                               visible)
    /\ activated' = visible'
    /\ procs' = [procs EXCEPT ![Top.pid].notified = TRUE]
    /\ stack' = Pop
    /\ last' = Step("on_tool_error", CapturedId(procs, Top.pid), Top.pid, "handled",
                    Top.ev)
    /\ UNCHANGED <<config, venv_exists, closed>>

\* --------------------------------------------------------------- closeEvent
\* A close request: with handles in the table the question dialog opens,
\* otherwise the event is accepted at once.
CloseEvent ==
    /\ UNCHANGED <<chanVars, regVars, engVars>>
    /\ Idle
    /\ IF NeedsConfirm(active_processes)
       THEN /\ stack' = Append(stack, Frame("question", 0, "", << >>, FALSE))
            /\ last' = Step("closeEvent", "", 0, "prompt", "")
            /\ UNCHANGED <<closed, visible, activated>>
       ELSE /\ closed' = TRUE
            /\ visible' = FALSE
            /\ activated' = FALSE
            /\ stack' = stack
            /\ last' = Step("closeEvent", "", 0, "accepted", "")
    /\ UNCHANGED <<config, venv_exists, active_processes, procs>>

Replies == {"Yes", "No"}

\* The user answers the question dialog: No ignores the event, any other
\* reply accepts it.
AnswerClose(reply) ==
    /\ UNCHANGED <<chanVars, regVars, engVars>>
    /\ ~closed
    /\ stack # << >>
    /\ Top.kind = "question"
    /\ stack' = Pop
    /\ IF ~CloseAccepted(reply)
       THEN /\ last' = Step("closeEvent", "", 0, reply, "")
            /\ UNCHANGED <<closed, visible, activated>>
       ELSE /\ closed' = TRUE
            /\ visible' = FALSE
            /\ activated' = FALSE
            /\ last' = Step("closeEvent", "", 0, reply, "")
    /\ UNCHANGED <<config, venv_exists, active_processes, procs>>

\* -------------------------------------------------------------- environment
\* The user installs or deletes a bundle's interpreter between launches.
SetVenv(tool_id, b) ==
    /\ UNCHANGED <<chanVars, regVars, engVars>>
    /\ Idle
    /\ venv_exists[tool_id] # b
    /\ venv_exists' = [venv_exists EXCEPT ![tool_id] = b]
    /\ last' = Step("env", tool_id, 0, "venv", "")
    /\ UNCHANGED <<config, active_processes, visible, activated, procs, stack,
                   closed>>

\* ======================================================================
\* The status channel
\* ======================================================================
Bundles == {"FakeTool", "md_converter", "Vision_Tester"}

\* Engine processes of the bundle that may run at the same time (nothing
\* keeps a second engine.py from being started on the same status file).
Writers == {"w1", "w2"}

NoRecord == [status |-> "", progress |-> 0, message |-> "", timestamp |-> 0]

File(kind, rec) == [kind |-> kind, rec |-> rec]

\* Arguments of update_status calls of each engine: the start and the
\* completion milestone of a run.
StatusCalls(t) ==
    IF t = "Vision_Tester"
    THEN { [status |-> "running", progress |-> 50, message |-> "Processing"],
           [status |-> "complete", progress |-> 100,
            message |-> "Single image detection complete"] }
    ELSE { [status |-> "running", progress |-> 0, message |-> "Engine started"],
           [status |-> "completed", progress |-> 100,
            message |-> "Test completed successfully"] }

\* update_status, the dictionary it builds: the arguments and the current
\* wall clock time.
StatusData(call, now) ==
    [status |-> call.status, progress |-> call.progress,
     message |-> call.message, timestamp |-> now]

\* The poll handler of each window.
ReaderOf(t) ==
    CASE t = "FakeTool"      -> "check_engine_status"
      [] t = "md_converter"  -> "check_status"
      [] OTHER               -> "update_progress_from_status"

\* What the window shows after a poll that parsed record rec: the handlers
\* display whatever the file holds; none of them reads rec.timestamp or
\* compares it with what was shown before.  shown_ts records the timestamp of
\* the record on display.  check_engine_status shows the message only; the
\* other two also set the progress bar.
Displayed(t, d, rec) ==
    IF t = "FakeTool"
    THEN [d EXCEPT !.message = rec.message, !.shown_ts = rec.timestamp]
    ELSE [d EXCEPT !.message = rec.message, !.progress = rec.progress,
                   !.shown_ts = rec.timestamp]

\* update_progress_from_status stops the timer on status complete or error;
\* the other two handlers never touch it.
TimerAfterPoll(t, running, rec) ==
    IF t = "Vision_Tester" /\ rec.status \in {"complete", "error"}
    THEN FALSE
    ELSE running

\* Variant: whatever text the file holds is read as a record, the missing
\* fields taking the defaults of status.get.
ParsesAnyText(file) == file.kind # "absent"

\* json.load inside the handlers' try block: only a file holding one complete
\* JSON document yields a record; an empty file, a partial or an overlapping
\* text raises JSONDecodeError, which "except Exception: pass" swallows.
Parses(file) == file.kind = "json"

InitChan ==
    /\ tool \in Bundles
    /\ status_file = File("absent", NoRecord)
    /\ writers = [w \in Writers |-> [pc |-> "idle", rec |-> NoRecord]]
    /\ clock = 1
    /\ display = [message |-> "", progress |-> 0, shown_ts |-> 0]
    /\ timer_running = FALSE
    /\ engine = [mode |-> "", pc |-> "idle", n |-> 0, i |-> 0]
    /\ written = << >>

\* update_status, lines 62-67: status_data is built with datetime.now().
BuildStatus(w, call) ==
    /\ UNCHANGED <<ctlVars, regVars, engVars>>
    /\ writers[w].pc = "idle"
    /\ writers' = [writers EXCEPT ![w] = [pc |-> "built",
                                          rec |-> StatusData(call, clock)]]
    /\ last' = Step("update_status", w, 0, "built", "")
    /\ UNCHANGED <<tool, status_file, clock, display, timer_running>>

\* update_status, line 70: open(..., 'w') truncates the file.
OpenStatus(w) ==
    /\ UNCHANGED <<ctlVars, regVars, engVars>>
    /\ writers[w].pc = "built"
    /\ writers' = [writers EXCEPT ![w].pc = "opened"]
    /\ status_file' = File("empty", NoRecord)
    /\ last' = Step("update_status", w, 0, "opened", "")
    /\ UNCHANGED <<tool, clock, display, timer_running>>

\* update_status, lines 70-71: the JSON text reaches the file when the with
\* block closes it.  If another process wrote the file after this one
\* truncated it, the two texts may overlap: the file then holds this record
\* or unparsable text.
CloseStatus(w) ==
    /\ UNCHANGED <<ctlVars, regVars, engVars>>
    /\ writers[w].pc = "opened"
    /\ writers' = [writers EXCEPT ![w] = [pc |-> "idle", rec |-> NoRecord]]
    /\ \/ status_file' = File("json", writers[w].rec)
       \/ /\ status_file.kind \in {"json", "corrupt"}
          /\ status_file' = File("corrupt", NoRecord)
    /\ last' = Step("update_status", w, 0, "written", "")
    /\ UNCHANGED <<tool, clock, display, timer_running>>

\* Wall clock time passes.
Tick ==
    /\ UNCHANGED <<ctlVars, regVars, engVars>>
    /\ clock < MaxClock
    /\ clock' = clock + 1
    /\ last' = Step("clock", "", 0, "", "")
    /\ UNCHANGED <<tool, status_file, writers, display, timer_running>>

\* One call of the window's poll handler: a missing file is skipped, a file
\* json.load cannot parse raises inside the try block and is ignored, a
\* parsed record is displayed.
Poll ==
    /\ UNCHANGED <<ctlVars, regVars, engVars>>
    /\ IF Parses(status_file)
       THEN /\ display' = Displayed(tool, display, status_file.rec)
            /\ timer_running' = TimerAfterPoll(tool, timer_running,
                                               status_file.rec)
            /\ last' = Step(ReaderOf(tool), tool, 0, "displayed", "")
       ELSE /\ last' = Step(ReaderOf(tool), tool, 0, status_file.kind, "")
            /\ UNCHANGED <<display, timer_running>>
    /\ UNCHANGED <<tool, status_file, writers, clock>>

Init ==
    /\ InitCtl
    /\ InitChan
    /\ tool = "FakeTool"

\* The channel on its own, next to an idle controller.
InitStatus ==
    /\ InitCtl
    /\ InitChan
    /\ config.tools[1].id = "a"
    /\ venv_exists = [i \in ToolIds |-> TRUE]

NextStatus ==
    \/ \E w \in Writers, call \in StatusCalls(tool) : BuildStatus(w, call)
    \/ \E w \in Writers : OpenStatus(w)
    \/ \E w \in Writers : CloseStatus(w)
    \/ Tick
    \/ Poll

StatusSpec == InitStatus /\ [][NextStatus]_vars

Next ==
    \/ \E i \in LaunchIds, e \in BOOLEAN : LaunchTool(i, e)
    \/ \E k \in 0..MaxTools, e \in BOOLEAN : OnLaunchClicked(k, e)
    \/ \E p \in Pids : ProcStarted(p)
    \/ \E p \in Pids, ev \in ProcessEvents : ProcessEnds(p, ev)
    \/ Emit
    \/ DismissError
    \/ CloseEvent
    \/ \E r \in Replies : AnswerClose(r)
    \/ \E i \in ToolIds, b \in BOOLEAN : SetVenv(i, b)

Spec == Init /\ [][Next]_vars

\* ----------------------------------------------------- start-up, the list
\* main(): AiCopilotDP() and launcher.show().  __init__ runs load_config
\* (a missing file: critical dialog, sys.exit(1); the parsed document is
\* taken as it is), then connect_signals, whose refresh_tool_list fills the
\* list; a KeyError raised there leaves __init__ and ends the program.
Startup ==
    /\ UNCHANGED <<chanVars, engVars>>
    /\ phase = "start"
    /\ IF ~document.exists
       THEN /\ phase' = "exited"
            /\ last' = Step("load_config", "", 0, "ConfigNotFound", "")
            /\ UNCHANGED <<config, lst_tools, visible, activated>>
       ELSE LET r == refresh_tool_list(document.json)
            IN  /\ config' = document.json
                /\ lst_tools' = r.items
                /\ IF r.raised
                   THEN /\ phase' = "crashed"
                        /\ last' = Step("refresh_tool_list", "", 0, "KeyError", "")
                        /\ UNCHANGED <<visible, activated>>
                   ELSE /\ phase' = "running"
                        /\ visible' = ShowWindow(visible)
                        /\ activated' = TRUE
                        /\ last' = Step("main", "", 0, "running", "")
    /\ UNCHANGED <<document, venv_exists, active_processes, procs, stack, closed>>

\* The refresh button: refresh_tool_list.
RefreshClicked ==
    /\ UNCHANGED <<chanVars, engVars>>
    /\ Idle
    /\ visible
    /\ LET r == refresh_tool_list(config)
       IN  /\ lst_tools' = r.items
           /\ last' = Step("refresh_tool_list", "", 0,
                           IF r.raised THEN "KeyError" ELSE "listed", "")
    /\ UNCHANGED <<ctlVars, document, phase>>

\* on_tool_selected for item k: the entry found for the item's id is shown
\* (outcome: its display name).
OnToolSelected(k) ==
    /\ UNCHANGED <<chanVars, engVars>>
    /\ Idle
    /\ visible
    /\ k \in 1..Len(lst_tools)
    /\ LET tool_info == get_tool_by_id(config, lst_tools[k].data)
           shown == IF tool_info = NoTool THEN ""
                    ELSE IF "display_name" \in DOMAIN tool_info
                         THEN tool_info.display_name
                    ELSE "KeyError"
       IN  last' = [Step("on_tool_selected", lst_tools[k].data, 0, shown, "")
                      EXCEPT !.item = k]
    /\ UNCHANGED <<ctlVars, regVars, engVars>>

InitRegistry ==
    /\ InitChan
    /\ tool = "FakeTool"
    /\ document \in { ConfigFile(FALSE, [tools |-> << >>]) }
                     \cup { ConfigFile(TRUE, d) : d \in Documents }
    /\ phase = "start"
    /\ config = [tools |-> << >>]
    /\ lst_tools = << >>
    /\ venv_exists = [i \in ToolIds |-> TRUE]
    /\ active_processes = << >>
    /\ visible = FALSE
    /\ activated = FALSE
    /\ procs = << >>
    /\ stack = << >>
    /\ closed = FALSE
    /\ last = Step("init", "", 0, "", "")

NextRegistry ==
    \/ Startup
    \/ RefreshClicked
    \/ \E k \in 1..MaxTools : OnToolSelected(k)

RegistrySpec == InitRegistry /\ [][NextRegistry]_vars

\* ======================================================================
\* Properties of the supervisor
\* ======================================================================
Registered(tool_id) ==
    \E k \in 1..Len(config.tools) : config.tools[k].id = tool_id

\* Child p still has a signal to be emitted or handled: it has not ended, or
\* a frame of the call stack belongs to it.
Pending(p) ==
    \/ procs[p].state # "NotRunning"
    \/ \E k \in 1..Len(stack) : stack[k].pid = p

\* The step that led to this state is a call of launch_tool (its checks and,
\* when they pass, hide() and start()).
LaunchCalled ==
    /\ last.op = "launch_tool"
    /\ last.outcome \in {"Tool Not Found", "Environment Missing", "started",
                         "start"}

\* launch_tool has returned from a call that passed its checks.
LaunchReturned ==
    /\ last.op = "launch_tool"
    /\ last.outcome \in {"started", "error during start"}

\* C1: when launch_tool(i) has passed its checks and returned, the table holds
\* a handle for i; and when the terminal notification of every launch of i has
\* been handled, the table holds no handle for i -- also when the error
\* notification is delivered inside start().
C1_HandleLifecycle ==
    /\ LaunchReturned => last.id \in DOMAIN active_processes
    /\ \A i \in LaunchIds :
          (\A p \in 1..Len(procs) : procs[p].tool = i => ~Pending(p))
             => i \notin DOMAIN active_processes

\* C2: launch_tool(i) called while the table holds a handle for i fails with
\* AlreadyRunning: no process is created, the handle is not replaced and the
\* window's visibility is unchanged.
C2_AlreadyRunning ==
    [][ (LaunchCalled' /\ last'.id \in DOMAIN active_processes)
          => /\ last'.outcome = "Already Running"
             /\ UNCHANGED <<active_processes, visible, procs>> ]_vars

\* C3: launch_tool(i) for an id that matches no entry of the registry ends
\* with the Tool Not Found warning: no process is created, the table is
\* unchanged and the window is not hidden.
C3_ToolNotRegistered ==
    [][ (LaunchCalled' /\ ~Registered(last'.id))
          => /\ last'.outcome = "Tool Not Found"
             /\ last'.pid = 0
             /\ UNCHANGED <<active_processes, visible, activated, procs,
                            stack>> ]_vars

C3_Witness ==
    /\ LaunchCalled
    /\ ~Registered(last.id)
    /\ last.outcome = "Tool Not Found"
    /\ DOMAIN active_processes # {}

\* C4: launch_tool for a registered tool whose interpreter does not exist ends
\* with the Environment Missing warning, creates no process and changes
\* neither the table nor the visibility; the same call in the resulting state
\* has the same outcome (and, by the first part, the same state).
C4_EnvironmentMissing ==
    [][ (LaunchCalled' /\ Registered(last'.id) /\ ~venv_exists[last'.id])
          => /\ last'.outcome = "Environment Missing"
             /\ last'.pid = 0
             /\ UNCHANGED <<active_processes, visible, activated, procs,
                            stack, venv_exists, config>>
             /\ LaunchChecks(config', venv_exists', last'.id)
                    = "Environment Missing" ]_vars

C4_Witness ==
    /\ LaunchCalled
    /\ Registered(last.id)
    /\ ~venv_exists[last.id]
    /\ last.outcome = "Environment Missing"
    /\ visible

\* C5: launch_tool for a registered tool whose interpreter exists but whose
\* entry point file does not is aborted before any spawn: no process, no
\* handle, the window not hidden.
C5_EntryPointChecked ==
    [][ (LaunchCalled' /\ Registered(last'.id) /\ venv_exists[last'.id]
            /\ ~last'.entry)
          => /\ last'.pid = 0
             /\ UNCHANGED <<active_processes, visible, procs>> ]_vars

C7_ResumeOnNotification ==
    (last.op \in {"on_tool_finished", "on_tool_error"} /\ last.outcome = "handled")
        => (visible /\ activated)

C7_Witness ==
    /\ last.op = "on_tool_error"
    /\ last.outcome = "handled"
    /\ last.ev = "FailedToStart"
    /\ last.id \notin DOMAIN active_processes
    /\ DOMAIN active_processes # {}

\* C8: for each launch only the first terminal notification can change the
\* table or make the hidden window visible: an on_tool_finished that runs for
\* a process already notified changes neither.
C8_ResumeOnce ==
    [][ \A p \in 1..Len(procs) :
          (procs[p].notified /\ last'.pid = p /\ last'.outcome = "handled")
             => UNCHANGED <<active_processes, visible>> ]_vars

C8_Witness ==
    /\ last.op = "on_tool_finished"
    /\ last.ev = "Crashed"
    /\ last.outcome = "handled"
    /\ DOMAIN active_processes # {}

\* C9: a close request with handles in the table is accepted only by the
\* reply Yes; on No the event is ignored and nothing changes; with an empty
\* table the request is accepted without a question.
C9_ConfirmBeforeClose ==
    [][ /\ (closed' /\ ~closed)
            => /\ last'.op = "closeEvent"
               /\ \/ last'.outcome = "Yes" /\ stack # << >> /\ Top.kind = "question"
                  \/ last'.outcome = "accepted" /\ DOMAIN active_processes = {}
        /\ (last'.op = "closeEvent" /\ last'.outcome = "No")
            => /\ ~closed'
               /\ UNCHANGED <<active_processes, visible, activated, procs>>
        /\ (last'.op = "closeEvent" /\ Idle /\ DOMAIN active_processes # {})
            => /\ ~closed'
               /\ last'.outcome = "prompt"
        /\ (last'.op = "closeEvent" /\ Idle /\ DOMAIN active_processes = {})
            => /\ closed'
               /\ stack' = << >> ]_vars

C9_Witness ==
    /\ last.op = "closeEvent"
    /\ last.outcome = "No"
    /\ DOMAIN active_processes # {}
    /\ ~closed

C9_WitnessYes ==
    /\ last.op = "closeEvent"
    /\ last.outcome = "Yes"
    /\ closed

\* ======================================================================
\* Properties of the status channel
\* ======================================================================
\* C10: a reader never displays a record whose timestamp is older than that
\* of the record it displays already: whatever the order in which records
\* reach successive polls, the timestamp of the record on display never
\* decreases.
C10_NoStaleDisplay ==
    [][ display'.shown_ts >= display.shown_ts ]_vars

\* C11: a poll that finds no valid record (the file is absent, empty, partly
\* written or otherwise unparsable) leaves the displayed message, the progress
\* and the timer as they were, and the poll after a failed one displays the
\* record it finds.
C11_MalformedPollIgnored ==
    [][ last'.op = ReaderOf(tool) =>
          /\ status_file.kind # "json" => UNCHANGED <<display, timer_running>>
          /\ (last.op = ReaderOf(tool) /\ last.outcome # "displayed"
                 /\ status_file.kind = "json")
              => display' = Displayed(tool, display, status_file.rec) ]_vars

C11_Witness ==
    /\ last.op = ReaderOf(tool)
    /\ last.outcome \in {"empty", "corrupt"}
    /\ display.shown_ts > 0

\* C12: update_status replaces the status file atomically: a poll that runs
\* while engines write finds the file absent or holding one complete record,
\* never empty or partly written.
C12_AtomicReplace ==
    last.op = ReaderOf(tool) => last.outcome \in {"absent", "displayed"}

\* ======================================================================
\* Properties of the registry and the tool list
\* ======================================================================
\* The positions of the configuration's entries that are enabled: the field
\* is true or missing.
EnabledPositions(cfg) ==
    { k \in 1..Len(cfg.tools) :
        "enabled" \notin DOMAIN cfg.tools[k] \/ cfg.tools[k].enabled }

\* C13: while the controller runs, the tool list holds exactly the entries of
\* the loaded configuration whose enabled field is true or missing, each
\* once and in configuration order (text: the display name, data: the id);
\* an entry with enabled false is not in it.
C13_ListEnabled ==
    phase = "running" =>
        LET S == EnabledPositions(config)
        IN  /\ Len(lst_tools) = Cardinality(S)
            /\ \A k \in S :
                  LET j == Cardinality({ m \in S : m <= k })
                  IN  /\ lst_tools[j].data = config.tools[k].id
                      /\ lst_tools[j].text = config.tools[k].display_name

\* refresh_tool_list has rebuilt the list of a configuration whose first entry
\* is disabled and whose second entry has no enabled field.
C13_Witness ==
    /\ phase = "running"
    /\ last.op = "refresh_tool_list"
    /\ Len(config.tools) = 2
    /\ "enabled" \in DOMAIN config.tools[1] /\ ~config.tools[1].enabled
    /\ "enabled" \notin DOMAIN config.tools[2]
    /\ Len(lst_tools) = 1
    /\ lst_tools[1].data = config.tools[2].id

\* C14: lookups and launches go by id only.  get_tool_by_id(x) yields an entry
\* whose id is x, or none; a launch from the selected list item is a launch
\* of the id stored on that item: the entry looked up and the process created
\* carry that id, whatever the item's text (the display name) is.
C14_LookupById ==
    [][ /\ \A x \in LaunchIds :
              LET t == get_tool_by_id(config, x)
              IN  t = NoTool \/ t.id = x
        /\ (last'.op = "launch_tool" /\ last'.item > 0) =>
              LET stored == lst_tools[last'.item].data
              IN  /\ last'.id = stored
                  /\ last'.outcome # "Tool Not Found"
                  /\ get_tool_by_id(config, last'.id).id = stored
                  /\ last'.pid > 0 => procs'[last'.pid].tool = stored ]_vars

\* The item clicked shows the text "a", which is another tool's id; the tool
\* started is the one whose id the item stores.
C14_Witness ==
    /\ last.op = "launch_tool"
    /\ last.item > 0
    /\ last.outcome = "started"
    /\ lst_tools[last.item].text \in ToolIds
    /\ lst_tools[last.item].text # lst_tools[last.item].data
    /\ procs[last.pid].tool = lst_tools[last.item].data

\* A structurally valid configuration: every entry has its required fields
\* and no two entries share an id.
WellFormed(cfg) ==
    /\ \A k \in 1..Len(cfg.tools) :
          {"id", "display_name"} \subseteq DOMAIN cfg.tools[k]
    /\ \A j, k \in 1..Len(cfg.tools) :
          j # k => cfg.tools[j].id # cfg.tools[k].id

\* C15: a document with a duplicate id or with an entry that lacks a required
\* field is rejected at load, so a running controller (one that answers
\* selections and launches) holds a well formed configuration; a missing
\* document ends the controller.
C15_ConfigValidated ==
    /\ phase = "running" => WellFormed(config)
    /\ (phase # "start" /\ ~document.exists) => phase = "exited"

\* C16: launch_tool never starts a process or registers a handle for an entry
\* whose enabled field is false: every id in active_processes belongs to an
\* enabled entry of the configuration.
C16_DisabledNeverLaunched ==
    \A i \in DOMAIN active_processes :
        /\ Registered(i)
        /\ IsEnabled(get_tool_by_id(config, i))

\* C17: the environment is validated afresh at every launch: the outcome of
\* each launch_tool call for a registered id depends only on whether the
\* tool's interpreter exists at that call, whatever earlier launches of the
\* id found.
C17_ValidationFresh ==
    [][ (LaunchCalled' /\ Registered(last'.id)) =>
          /\ last'.outcome = "Environment Missing" <=> ~venv_exists[last'.id]
          /\ last'.outcome \in {"started", "start"} <=> venv_exists[last'.id]
      ]_vars

\* A launch fails on the missing interpreter although an earlier launch of
\* the same id started a process.
C17_Witness ==
    /\ last.op = "launch_tool"
    /\ last.outcome = "Environment Missing"
    /\ \E p \in 1..Len(procs) : procs[p].tool = last.id

\* C18: between handler executions the window is hidden if and only if
\* active_processes is non-empty.
C18_HiddenIffTracked ==
    Idle => (~visible <=> DOMAIN active_processes # {})

\* C19: a launch that passes lookup and validation hides the window and
\* registers the handle in the same handler execution: when launch_tool
\* returns with the process starting, the window is hidden and
\* active_processes maps the id to the new process; a call whose start()
\* reports the failure at once has hidden the window before start() and has
\* registered the handle when it returns.  A launch that fails lookup or
\* validation changes neither the window nor the table.
C19_HideAndRegister ==
    [][ /\ (LaunchCalled' /\ last'.outcome \in {"started", "start"})
              => ~visible'
        /\ LaunchReturned' =>
              /\ last'.id \in DOMAIN active_processes'
              /\ active_processes'[last'.id] = last'.pid
        /\ (LaunchCalled'
              /\ last'.outcome \in {"Tool Not Found", "Environment Missing"})
              => UNCHANGED <<visible, active_processes>> ]_vars

\* launch_tool, called from the list, has returned with the process starting:
\* hidden window, handle registered.
C19_Witness ==
    /\ last.op = "launch_tool"
    /\ last.outcome = "started"
    /\ last.item > 0
    /\ ~visible
    /\ active_processes[last.id] = last.pid

\* C20: every launch returns its tool to idle: once every process created
\* has ended and every notification has been handled, no handle is left in
\* active_processes.
C20_AllHandlesRemoved ==
    (Idle /\ \A p \in 1..Len(procs) : ~Pending(p))
        => DOMAIN active_processes = {}

\* ======================================================================
\* The engines: one run of engine.py
\* ======================================================================
\* The command-line modes of each engine's main().
Modes(t) ==
    CASE t = "FakeTool"      -> {"default", "test", "image", "folder"}
      [] t = "md_converter"  -> {"default", "test", "file", "folder"}
      [] OTHER               -> {"single", "batch", "test"}

\* An update_status call.
Call(status, progress, message) ==
    [status |-> status, progress |-> progress, message |-> message]

\* The run goes on at position pc2 without writing.
Goto(pc2) ==
    /\ engine' = [engine EXCEPT !.pc = pc2]
    /\ UNCHANGED <<status_file, written>>

\* update_status(call) and on to position pc2 (a single process: the record
\* reaches the file whole).
WriteGoto(call, pc2) ==
    /\ engine' = [engine EXCEPT !.pc = pc2]
    /\ status_file' = File("json", StatusData(call, clock))
    /\ written' = Append(written, StatusData(call, clock))

EngineFrame == UNCHANGED <<ctlVars, regVars, tool, writers, clock, display,
                           timer_running>>

\* main() of the bundle's engine.py is started in one of its modes.
StartRun(mode) ==
    /\ EngineFrame
    /\ engine.pc = "idle"
    /\ mode \in Modes(tool)
    /\ engine' = [engine EXCEPT !.mode = mode, !.pc = "init"]
    /\ last' = Step("main", tool, 0, mode, "")
    /\ UNCHANGED <<status_file, written>>

\* The engine object is constructed: load_config raises or exits on a missing
\* or unreadable config.json, before any status is written; otherwise main()
\* dispatches on the mode.
Construct ==
    /\ EngineFrame
    /\ engine.pc = "init"
    /\ \/ /\ Goto("exited")
          /\ last' = Step("main", tool, 0, "config error", "")
       \/ /\ Goto(CASE tool = "Vision_Tester" /\ engine.mode = "test" -> "load:start"
                     [] tool = "Vision_Tester" -> "run:start"
                     [] engine.mode \in {"default", "test"} -> "run:start"
                     [] engine.mode = "image" -> "image"
                     [] engine.mode = "file" -> "file:start"
                     [] OTHER -> "folder:start")
          /\ last' = Step("main", tool, 0, "constructed", "")

\* FakeToolEngine.run and MDConverterEngine.run (the same code): running,
\* then completed in test mode, ready otherwise; an exception raised in
\* between is answered with an error record and raised again.
EngineRun ==
    /\ EngineFrame
    /\ tool \in {"FakeTool", "md_converter"}
    /\ \/ /\ engine.pc = "run:start"
          /\ WriteGoto(Call("running", 0, "Engine started"), "run:started")
       \/ /\ engine.pc = "run:started"
          /\ \/ /\ engine.mode = "test"
                /\ WriteGoto(Call("completed", 100, "Test completed successfully"),
                             "run:return")
             \/ /\ engine.mode = "default"
                /\ WriteGoto(Call("ready", 0, "Waiting for commands"),
                             "run:return")
             \/ WriteGoto(Call("error", 0, "Error"), "exited")
       \/ /\ engine.pc = "run:return"
          /\ Goto("exited")
    /\ last' = Step("run", tool, 0, engine'.pc, "")

\* FakeTool --image: main() calls get_image_info only.
GetImageInfo ==
    /\ EngineFrame
    /\ tool = "FakeTool"
    /\ engine.pc = "image"
    /\ Goto("exited")
    /\ last' = Step("get_image_info", tool, 0, "exited", "")

\* FakeTool --folder: process_folder raises on an invalid folder, else writes
\* running, scans (glob may raise) and writes completed.
ProcessFolder ==
    /\ EngineFrame
    /\ tool = "FakeTool"
    /\ \/ /\ engine.pc = "folder:start"
          /\ \/ Goto("exited")
             \/ WriteGoto(Call("running", 0, "Scanning"), "folder:scan")
       \/ /\ engine.pc = "folder:scan"
          /\ \/ Goto("exited")
             \/ WriteGoto(Call("completed", 100, "Found images"), "folder:return")
       \/ /\ engine.pc = "folder:return"
          /\ Goto("exited")
    /\ last' = Step("process_folder", tool, 0, engine'.pc, "")

\* md_converter --file: convert_single_file writes running, then completed or
\* error as convert_file reports (convert_file catches its own exceptions).
ConvertSingleFile ==
    /\ EngineFrame
    /\ tool = "md_converter"
    /\ \/ /\ engine.pc = "file:start"
          /\ WriteGoto(Call("running", 0, "Converting"), "file:convert")
       \/ /\ engine.pc = "file:convert"
          /\ \/ WriteGoto(Call("completed", 100, "Successfully converted"),
                           "file:return")
             \/ WriteGoto(Call("error", 0, "Error converting"), "file:return")
       \/ /\ engine.pc = "file:return"
          /\ Goto("exited")
    /\ last' = Step("convert_single_file", tool, 0, engine'.pc, "")

\* int((i / len(files)) * 100)
FileProgress(i, n) == (i * 100) \div n

\* md_converter --folder: convert_folder.  No file: completed at once.
\* Otherwise running 0, then one running record per file with the file's
\* progress, then completed.
ConvertFolder ==
    /\ EngineFrame
    /\ tool = "md_converter"
    /\ \/ /\ engine.pc = "folder:start"
          /\ \E n \in 0..MaxFiles :
                IF n = 0
                THEN WriteGoto(Call("completed", 100, "No files to convert"),
                               "folder:return")
                ELSE /\ engine' = [engine EXCEPT !.pc = "folder:file",
                                                 !.n = n, !.i = 1]
                     /\ status_file' = File("json",
                           StatusData(Call("running", 0, "Converting files"), clock))
                     /\ written' = Append(written,
                           StatusData(Call("running", 0, "Converting files"), clock))
       \/ /\ engine.pc = "folder:file"
          /\ LET call == Call("running", FileProgress(engine.i, engine.n),
                              "Converting file")
             IN  /\ engine' = IF engine.i < engine.n
                               THEN [engine EXCEPT !.i = @ + 1]
                               ELSE [engine EXCEPT !.pc = "folder:final"]
                 /\ status_file' = File("json", StatusData(call, clock))
                 /\ written' = Append(written, StatusData(call, clock))
       \/ /\ engine.pc = "folder:final"
          /\ WriteGoto(Call("completed", 100, "Completed"), "folder:return")
       \/ /\ engine.pc = "folder:return"
          /\ Goto("exited")
    /\ last' = Step("convert_folder", tool, 0, engine'.pc, "")

\* VisionTesterEngine.load_model: running 10, then running 20 when the
\* detector was created, error 0 when that raised.  --test ends after it;
\* run() goes on to validate the input or returns False.
LoadModel ==
    /\ EngineFrame
    /\ tool = "Vision_Tester"
    /\ \/ /\ engine.pc = "load:start"
          /\ WriteGoto(Call("running", 10, "Loading model"), "load:create")
       \/ /\ engine.pc = "load:create"
          /\ \/ WriteGoto(Call("running", 20, "Model loaded"),
                           IF engine.mode = "test" THEN "test:exit"
                           ELSE "run:validate")
             \/ WriteGoto(Call("error", 0, "Model loading failed"),
                           IF engine.mode = "test" THEN "test:exit"
                           ELSE "run:return")
       \/ /\ engine.pc = "test:exit"
          /\ Goto("exited")
    /\ last' = Step("load_model", tool, 0, engine'.pc, "")

\* VisionTesterEngine.run: running 0, load_model, the input check (a missing
\* input raises FileNotFoundError, answered with an error record), then
\* run_detection, the closing log line and the return.
VisionRun ==
    /\ EngineFrame
    /\ tool = "Vision_Tester"
    /\ \/ /\ engine.pc = "run:start"
          /\ WriteGoto(Call("running", 0, "Starting Vision Tester Engine"),
                       "load:start")
       \/ /\ engine.pc = "run:validate"
          /\ \/ Goto("detect:start")
             \/ WriteGoto(Call("error", 0, "Engine error"), "exited")
       \/ /\ engine.pc = "run:return"
          /\ Goto("exited")
    /\ last' = Step("run", tool, 0, engine'.pc, "")

\* VisionTesterEngine.run_detection: running 50 (single) or 30 (batch), then
\* complete 100, or error 0 when the detector raised.
RunDetection ==
    /\ EngineFrame
    /\ tool = "Vision_Tester"
    /\ \/ /\ engine.pc = "detect:start"
          /\ WriteGoto(Call("running",
                            IF engine.mode = "single" THEN 50 ELSE 30,
                            "Processing"), "detect:run")
       \/ /\ engine.pc = "detect:run"
          /\ \/ WriteGoto(Call("complete", 100, "Detection complete"),
                           "run:return")
             \/ WriteGoto(Call("error", 0, "Detection failed"), "run:return")
    /\ last' = Step("run_detection", tool, 0, engine'.pc, "")

\* The positions inside the try block of run(), whose except clause catches
\* KeyboardInterrupt (the methods run() calls catch Exception only).
InRunTry ==
    \/ engine.pc \in {"run:start", "run:started", "run:return"}
    \/ /\ tool = "Vision_Tester"
       /\ engine.mode # "test"
       /\ engine.pc \in {"load:start", "load:create", "run:validate",
                          "detect:start", "detect:run"}

\* The user interrupts the process (SIGINT).  Inside run() the interrupt is
\* answered with a record (stopped; Vision_Tester: error) before the process
\* ends; anywhere else the process ends on the uncaught KeyboardInterrupt.
KeyboardInterrupt ==
    /\ EngineFrame
    /\ engine.pc \notin {"idle", "init", "exited"}
    /\ IF InRunTry
       THEN IF tool = "Vision_Tester"
            THEN WriteGoto(Call("error", 0, "Process interrupted by user"),
                           "exited")
            ELSE WriteGoto(Call("stopped", 0, "Stopped by user"), "exited")
       ELSE Goto("exited")
    /\ last' = Step("KeyboardInterrupt", tool, 0, "exited", "")

InitEngine ==
    /\ InitCtl
    /\ InitChan
    /\ config.tools[1].id = "a"
    /\ venv_exists = [i \in ToolIds |-> TRUE]

NextEngine ==
    \/ \E mode \in {"default", "test", "image", "folder", "file", "single",
                     "batch"} : StartRun(mode)
    \/ Construct
    \/ EngineRun
    \/ GetImageInfo
    \/ ProcessFolder
    \/ ConvertSingleFile
    \/ ConvertFolder
    \/ LoadModel
    \/ VisionRun
    \/ RunDetection
    \/ KeyboardInterrupt

EngineSpec == InitEngine /\ [][NextEngine]_vars

\* ======================================================================
\* The supervisor next to a bundle that writes its status file
\* ======================================================================
\* The controller with both tools enabled and installed, and FakeTool's
\* engine not yet started.
InitSupervision ==
    /\ Init
    /\ config.tools[1].id = "b"
    /\ venv_exists = [i \in ToolIds |-> TRUE]

\* The controller's steps interleaved with the steps of one run of
\* FakeTool's engine in test mode, which writes status.json (running, then
\* completed or error) or, when its config.json cannot be read, never does.
NextSupervision ==
    \/ \E i \in LaunchIds : LaunchTool(i, TRUE)
    \/ \E p \in Pids : ProcStarted(p)
    \/ \E p \in Pids, ev \in ProcessEvents : ProcessEnds(p, ev)
    \/ Emit
    \/ DismissError
    \/ CloseEvent
    \/ \E r \in Replies : AnswerClose(r)
    \/ \E b \in BOOLEAN : SetVenv("a", b)
    \/ StartRun("test")
    \/ Construct
    \/ EngineRun

SupervisionSpec == InitSupervision /\ [][NextSupervision]_vars

\* ======================================================================
\* Properties of the readers' timers and of the engines' runs
\* ======================================================================
\* The status values after which the reader contract ends the polling.
TerminalStatuses == {"completed", "error", "stopped"}

\* C21: a reader that has observed a record whose status is completed, error
\* or stopped stops polling: the poll handler that displayed such a record
\* leaves no running timer behind (applied to a running timer, it stops it).
C21_StopOnTerminal ==
    ( /\ last.op = ReaderOf(tool)
      /\ last.outcome = "displayed"
      /\ status_file.kind = "json"
      /\ status_file.rec.status \in TerminalStatuses )
    => ~TimerAfterPoll(tool, TRUE, status_file.rec)

\* An engine run has started and its process has not ended.
RunInProgress == engine.pc \notin {"idle", "exited"}

\* C22: while an engine run is in progress the window's polling timer is
\* running (so that a record that stays in the file is read and displayed).
C22_PollsDuringRun ==
    RunInProgress => timer_running

\* The StatusRecord schema's status values.
StatusValues == {"ready", "running", "completed", "error", "stopped"}

\* C23: every record an engine writes has the four fields, a status among
\* ready, running, completed, error, stopped, and an integer progress in
\* 0..100.
C23_RecordSchema ==
    \A k \in 1..Len(written) :
        /\ DOMAIN written[k] = {"status", "progress", "message", "timestamp"}
        /\ written[k].status \in StatusValues
        /\ written[k].progress \in 0..100

\* C24: within one run the progress of successive records never decreases,
\* the error records included.
C24_ProgressMonotone ==
    \A k \in 1..(Len(written) - 1) :
        written[k].progress <= written[k + 1].progress

\* C25: a run that has ended (its engine object having been constructed)
\* wrote a running record first and a completed, error or stopped record
\* last, whatever its command-line mode.
C25_MilestonesWritten ==
    (engine.pc = "exited" /\ last.outcome # "config error") =>
        /\ Len(written) >= 2
        /\ written[1].status = "running"
        /\ written[Len(written)].status \in TerminalStatuses

\* C30: once a run has written a record whose status is completed, complete,
\* error or stopped, it writes no further record.
C30_TerminalIsFinal ==
    \A k \in 1..(Len(written) - 1) :
        written[k].status \notin TerminalStatuses \cup {"complete"}

\* ======================================================================
\* Properties of the supervisor's table and window over whole runs
\* ======================================================================
\* Child p was started by launch_tool and has not terminated.
Live(p) == procs[p].state \in {"Starting", "Running"}

\* C27: whenever the event loop is idle (no handler or dialog is running, so
\* that a close request can arrive), the id of every child that launch_tool
\* has started and that has not terminated is a key of the table: the close
\* request finds the table non-empty and asks for confirmation.
C27_LiveChildrenTracked ==
    Idle => \A p \in 1..Len(procs) :
                Live(p) => procs[p].tool \in DOMAIN active_processes

\* C28: while the application runs with its window hidden, some child started
\* by launch_tool still has a terminal notification to be delivered or
\* handled; once all of them are handled the window is visible.
C28_NeverStrandedHidden ==
    (~closed /\ ~visible) => \E p \in 1..Len(procs) : Pending(p)

C28_Witness ==
    /\ ~closed
    /\ ~visible
    /\ \E p \in 1..Len(procs) : procs[p].notified /\ ~Pending(p)
    /\ \E q \in 1..Len(procs) : Pending(q)

\* The entry of tool id j is the same in the tables ap and aq.
SameEntry(ap, aq, j) ==
    /\ j \in DOMAIN ap <=> j \in DOMAIN aq
    /\ j \in DOMAIN ap => ap[j] = aq[j]

\* C29: a launch of i (failed or successful) and a terminal notification for
\* i leave the entry of every other id as it was, and the id a slot receives
\* is the id under which the notifying process was launched.
C29_PerToolIsolation ==
    [][ (last'.op \in {"launch_tool", "on_tool_finished", "on_tool_error"})
          => /\ \A j \in ToolIds \ {last'.id} :
                   SameEntry(active_processes, active_processes', j)
             /\ last'.op \in {"on_tool_finished", "on_tool_error"}
                   => last'.id = procs[last'.pid].tool ]_vars

C29_Witness ==
    /\ last.op = "on_tool_finished"
    /\ last.outcome = "handled"
    /\ last.pid = 1
    /\ Len(procs) = 2
    /\ procs[2].tool # last.id
    /\ procs[2].tool \in DOMAIN active_processes
    /\ last.id \notin DOMAIN active_processes

\* The table and the window's visibility after the step described by e (a
\* launch with its outcome, a handled notification, a close request's end,
\* or anything else), from the table ap and the visibility v before it.
SupervisionEffect(ap, v, e) ==
    CASE e.op = "launch_tool" /\ e.outcome = "started"
            -> <<SetHandle(ap, e.id, e.pid), FALSE>>
      [] e.op = "launch_tool" /\ e.outcome = "start"
            -> <<ap, FALSE>>
      [] e.op = "launch_tool" /\ e.outcome = "error during start"
            -> <<SetHandle(ap, e.id, e.pid), v>>
      [] e.op \in {"on_tool_finished", "on_tool_error"} /\ e.outcome = "handled"
            -> <<RemoveHandle(ap, e.id), TRUE>>
      [] e.op = "closeEvent" /\ e.outcome \in {"accepted", "Yes"}
            -> <<ap, FALSE>>
      [] OTHER
            -> <<ap, v>>

\* C26: the table and the visibility after a step are a function of the
\* table and the visibility before it and of the step (launch, environment's
\* answer, process notification, close request) alone: the content of the
\* status file is no argument of it, a launch's outcome is decided by the
\* registry and the environment, and a write to the status file changes
\* neither the table nor the visibility.
C26_StatusIndependent ==
    [][ /\ <<active_processes', visible'>> =
               SupervisionEffect(active_processes, visible, last')
        /\ LaunchCalled' =>
               (IF last'.outcome \in {"started", "start"} THEN "spawn"
                ELSE last'.outcome) =
                   LaunchChecks(config, venv_exists, last'.id)
        /\ status_file' # status_file =>
               UNCHANGED <<active_processes, visible, procs, stack>> ]_vars

C26_Witness ==
    /\ status_file.kind = "json"
    /\ status_file.rec.status = "running"
    /\ last.op = "on_tool_finished"
    /\ last.outcome = "handled"
    /\ visible
    /\ last.id \notin DOMAIN active_processes
====
